---------------------------- MODULE Spec2Model ----------------------------
(***************************************************************************)
(* A model of the live-translator core: the GeminiLiveClient message       *)
(* handler (src/services/liveClient.ts) with its turn accumulators and     *)
(* playback scheduler, and the transcript reconciler of the App component  *)
(* (src/unnamed/part_000, handleTranscriptUpdate).                         *)
(*                                                                         *)
(* Text is a sequence of one-character strings.  Times are naturals: the   *)
(* audio clock (AudioContext.currentTime) and the wall clock (Date.now())  *)
(* are two separate monotonic counters.                                    *)
(*                                                                         *)
(* handleOnMessage is an async function and the transport does not wait    *)
(* for the promise it returns: a call runs from its entry to the await of  *)
(* line 199 in one step (HandleOnMessage) and from that await to its end   *)
(* in a later step (ResumeAudio); the calls suspended at the await resume  *)
(* in the order in which they were suspended, and other messages may be    *)
(* delivered in between.  An ended event of a source is dispatched as a    *)
(* step of its own (SourceEnded), never inside stop().                     *)
(*                                                                         *)
(* The lifecycle of one client (toggleConnection, connect, the transport's *)
(* callbacks, disconnect, the capture callback) is modelled with each      *)
(* await of connect() as a step boundary.  The PCM conversion of           *)
(* src/utils.ts is modelled on rational samples, through Int16Array,       *)
(* bytes and base64.                                                       *)
(***************************************************************************)
EXTENDS Integers, Sequences, FiniteSets, TLC

VARIABLES
    \* ---- App component state (src/unnamed/part_000)
    transcripts,                 \* useState<TranscriptItem[]>([])
    \* ---- GeminiLiveClient fields (src/services/liveClient.ts)
    audioContext,                \* "null" | "running" | "closed"
    session,                     \* "null" | "set": the Session connect() stored
    stream,                      \* "null" | "live" | "stopped": the microphone MediaStream
    processor,                   \* "null" | "connected" | "disconnected"
    inputSource,                 \* "null" | "connected" | "disconnected"
    currentInputTranscription,   \* user turn accumulator
    currentOutputTranscription,  \* model turn accumulator
    nextStartTime,               \* playback clock cursor
    scheduledSources,            \* set of indices into sources
    sources,                     \* every AudioBufferSourceNode created so far
    pending,                     \* handler invocations suspended at the await of line 199 (FIFO)
    \* ---- environment
    currentTime,                 \* AudioContext.currentTime
    dateNow,                     \* Date.now()
    msgCount,                    \* messages delivered so far
    phase,                       \* where connect() is: "idle" | "awaitMic" | "awaitSession" | "returned"
    transport,                   \* the WebSocket: "none" | "connecting" | "open" | "closing" | "closed"
                                 \* ("closing": closed, its close event not dispatched yet)
    isConnected,                 \* useState(false) of the App component
    error,                       \* useState<string | null>(null) of the App component
    calls,                       \* how often getUserMedia, config.onError, config.onClose,
                                 \* config.onAudioVisualizer (capture side), disconnect() and
                                 \* session.sendRealtimeInput were called
    captured,                    \* capture batches handed to onaudioprocess
    rejections,                  \* promises rejected with nobody handling the rejection
    \* ---- PCM conversion (src/utils.ts)
    float32In,                   \* the Float32Array handed to createPcmBlob: numerators over SampleDen
    pcmBlob,                     \* the data of the Blob createPcmBlob returned: base64 digits
    channelData,                 \* channel 0 of the AudioBuffer decodeAudioData returned:
                                 \* numerators over 32768
    dsInput,                     \* the Float32Array handed to downsampleTo16k
    dsRate,                      \* its inputRate (0: not called yet)
    dsResult,                    \* the array it returned: numerators over 16000
    \* ---- history (observation only; no action's guard reads these)
    lastMsg,                     \* the message the last handleOnMessage call received
    emitted,                     \* onTranscriptUpdate calls made by the last handleOnMessage call
    itemTurn,                    \* per transcript item: written during the latest turn?
    turnOpen,                    \* a delta arrived since the last TurnComplete / Interrupted
    heard,                       \* per speaker: all delta text received since the last Interrupted
    dropped,                     \* per speaker: accumulator content discarded by the last Interrupted
    spoken,                      \* per speaker: all delta text received since the last
                                 \* TurnComplete / Interrupted
    resetPending,                \* an Interrupted was handled and no buffer scheduled (reset) /
                                 \* no decodable audio message arrived (afterInt) since
    prevTranscripts,             \* the transcript sequence before the last reconciler call
    lastCall,                    \* arguments of the last reconciler call
    transportErrors,             \* transport-level errors so far
    afterDisconnect              \* the teardown state as the last disconnect() call left it

textVars  == <<transcripts, currentInputTranscription, currentOutputTranscription, dateNow,
               msgCount>>
audioVars == <<audioContext, nextStartTime, scheduledSources, sources, pending, currentTime>>
histVars  == <<lastMsg, emitted, itemTurn, turnOpen, heard, dropped, spoken, resetPending,
               prevTranscripts, lastCall>>
lifeVars  == <<session, stream, processor, inputSource, phase, transport, isConnected, error,
               calls, captured, rejections, transportErrors, afterDisconnect>>
codecVars == <<float32In, pcmBlob, channelData, dsInput, dsRate, dsResult>>
vars      == <<textVars, audioVars, histVars, lifeVars, codecVars>>

---------------------------------------------------------------------------
\* Bounds of the model

MaxMsgs  == 4      \* messages the transport delivers
MaxItems == 2      \* longest transcript sequence when the reconciler is exercised on its own
MaxDate  == 1      \* last wall-clock tick
MaxTime  == 2      \* last audio-clock tick
MaxDur   == 2      \* longest decoded buffer
MaxDisconnects == 2  \* disconnect() calls from outside the client
MaxBatches == 2    \* capture batches
MaxSamples == 2    \* longest chunk of samples converted
MaxInput == 3      \* longest array resampled
SampleDen == 5     \* the samples converted are the multiples of 1 / SampleDen ...
SampleOver == 1    \* ... from -1 - SampleOver / SampleDen to 1 + SampleOver / SampleDen

\* Constants of the program
NegScale == 32768     \* 0x8000
PosScale == 32767     \* 0x7FFF
DecodeScale == 32768  \* 32768.0
TargetRate == 16000   \* the rate downsampleTo16k converts to

\* the characters of the transcription deltas: two letters and a whitespace
Chars == {"a", "b", " "}

\* the texts the reconciler is called with when it is exercised on its own: empty,
\* whitespace only, a text, an extension of it, an unrelated text
TextArgs == {<<>>, <<" ">>, <<"a">>, <<"a", "b">>, <<"b">>}

Speakers == {"user", "model"}

\* A LiveServerMessage's serverContent.  A transcription field is Absent or holds one
\* delta text; audio is the inline data of modelTurn.parts[0].
Absent == <<>>

Deltas == {<<c>> : c \in Chars}

NoAudio == [kind |-> "none", duration |-> 0]

\* "badBase64": atob throws; "badLength": the Int16Array / createBuffer call inside
\* decodeAudioData throws; "pcm": a buffer of the given duration is decoded
AudioPayloads ==
    {[kind |-> "badBase64", duration |-> 0], [kind |-> "badLength", duration |-> 0]}
        \cup {[kind |-> "pcm", duration |-> d] : d \in 1..MaxDur}

NoMsg == [interrupted |-> FALSE, inputTranscription |-> Absent, outputTranscription |-> Absent,
          turnComplete |-> FALSE, audio |-> NoAudio]

NoCall == [text |-> <<>>, isUser |-> FALSE, isComplete |-> FALSE]

NoCalls == [getUserMedia |-> 0, onError |-> 0, onClose |-> 0, onAudioVisualizer |-> 0,
            disconnect |-> 0, sendRealtimeInput |-> 0]

NotDisconnected == [transport |-> "none"]

---------------------------------------------------------------------------
\* Strings

IsWhitespace(c) == c = " "

RECURSIVE TrimStart(_)
TrimStart(t) ==
    IF t = <<>> THEN <<>>
    ELSE IF IsWhitespace(Head(t)) THEN TrimStart(Tail(t)) ELSE t

RECURSIVE TrimEnd(_)
TrimEnd(t) ==
    IF t = <<>> THEN <<>>
    ELSE IF IsWhitespace(t[Len(t)]) THEN TrimEnd(SubSeq(t, 1, Len(t) - 1)) ELSE t

\* String.prototype.trim
Trim(t) == TrimEnd(TrimStart(t))

\* a JavaScript string is truthy iff it is not empty
Truthy(t) == t # <<>>

\* String.prototype.startsWith
StartsWith(s, p) == Len(p) <= Len(s) /\ SubSeq(s, 1, Len(p)) = p

\* Number.prototype.toString for a non-negative integer: its decimal digits
RECURSIVE toString(_)
toString(n) == IF n < 10 THEN <<n>> ELSE toString(n \div 10) \o <<n % 10>>

---------------------------------------------------------------------------
\* The transcript reconciler: the updater handed to setTranscripts

SourceOf(isUser) == IF isUser THEN "user" ELSE "model"

LastItem(prev) == prev[Len(prev)]

\* mutant: the first item is rewritten, not the last
Reopened_First(prev, text, isComplete, now) ==
    [prev EXCEPT ![1] =
        [prev[1] EXCEPT !.text = text, !.isComplete = isComplete, !.timestamp = now]]

\* Case 1 and Case 2c: the last item rewritten in place
Reopened(prev, text, isComplete, now) ==
    [prev EXCEPT ![Len(prev)] =
        [LastItem(prev) EXCEPT !.text = text, !.isComplete = isComplete, !.timestamp = now]]

\* mutant: Case 3 returns the sequence as it was
Appended_Nothing(prev, text, isUser, isComplete, now) == prev

\* Case 3: a new bubble
Appended(prev, text, isUser, isComplete, now) ==
    Append(prev, [id |-> toString(now), source |-> SourceOf(isUser), text |-> text,
                  timestamp |-> now, isComplete |-> isComplete])

\* Case 2a (line 48): the new text repeats the finalized text
ExactDuplicate(lastItem, text) == lastItem.text = text

\* mutant: the prefix check of Case 2b left out
Subset_Never(lastItem, text) == FALSE

\* Case 2b (line 55): the new text is a prefix of the finalized text
Subset(lastItem, text) == StartsWith(lastItem.text, text)

\* mutant: the continuation check of Case 2c left out
Superset_Never(lastItem, text) == FALSE

\* Case 2c (line 62): the new text extends the finalized text
Superset(lastItem, text) == StartsWith(text, lastItem.text)

HandleTranscriptUpdate(prev, text, isUser, isComplete, now) ==
    LET hasLast == Len(prev) > 0
        sameSource == hasLast /\ LastItem(prev).source = SourceOf(isUser)
    IN  IF ~Truthy(Trim(text)) THEN prev
        ELSE IF sameSource /\ ~LastItem(prev).isComplete
             THEN Reopened(prev, text, isComplete, now)
        ELSE IF sameSource /\ LastItem(prev).isComplete /\ ExactDuplicate(LastItem(prev), text)
             THEN prev
        ELSE IF sameSource /\ LastItem(prev).isComplete /\ Subset(LastItem(prev), text)
             THEN prev
        ELSE IF sameSource /\ LastItem(prev).isComplete /\ Superset(LastItem(prev), text)
             THEN Reopened(prev, text, isComplete, now)
        ELSE Appended(prev, text, isUser, isComplete, now)

---------------------------------------------------------------------------
\* Initial state: the App component mounted, a GeminiLiveClient constructed

Init ==
    /\ transcripts = <<>>
    /\ audioContext = "null"
    /\ currentInputTranscription = <<>>
    /\ currentOutputTranscription = <<>>
    /\ nextStartTime = 0
    /\ scheduledSources = {}
    /\ sources = <<>>
    /\ pending = <<>>
    /\ currentTime = 0
    /\ dateNow = 0
    /\ msgCount = 0
    /\ lastMsg = NoMsg
    /\ emitted = <<>>
    /\ itemTurn = <<>>
    /\ turnOpen = FALSE
    /\ heard = [s \in Speakers |-> <<>>]
    /\ dropped = [s \in Speakers |-> <<>>]
    /\ spoken = [s \in Speakers |-> <<>>]
    /\ resetPending = [reset |-> FALSE, afterInt |-> FALSE]
    /\ prevTranscripts = <<>>
    /\ lastCall = NoCall
    /\ session = "null"
    /\ stream = "null"
    /\ processor = "null"
    /\ inputSource = "null"
    /\ phase = "idle"
    /\ transport = "none"
    /\ isConnected = FALSE
    /\ error = "null"
    /\ calls = NoCalls
    /\ captured = 0
    /\ rejections = 0
    /\ transportErrors = 0
    /\ afterDisconnect = NotDisconnected
    /\ float32In = <<>>
    /\ pcmBlob = <<>>
    /\ channelData = <<>>
    /\ dsInput = <<>>
    /\ dsRate = 0
    /\ dsResult = <<>>

\* the wall clock advances
TickDate ==
    /\ dateNow < MaxDate
    /\ dateNow' = dateNow + 1
    /\ UNCHANGED <<transcripts, currentInputTranscription, currentOutputTranscription,
                   msgCount, audioVars, lastMsg, emitted, itemTurn, turnOpen, heard, dropped,
                   spoken, resetPending, prevTranscripts, lastCall, lifeVars, codecVars>>

---------------------------------------------------------------------------
\* GeminiLiveClient

Max(a, b) == IF a >= b THEN a ELSE b

\* toggleConnection and connect() on their path without failure, taken in one step
\* (part_000 lines 94-122, liveClient.ts lines 36-70 and 117-150): the microphone
\* stream is acquired, the playback AudioContext is created (its clock starts at 0),
\* the transport opens, handleOnOpen wires the capture nodes, the session is stored
\* and the App sets isConnected
Connect ==
    /\ audioContext = "null"
    /\ phase = "idle"
    /\ audioContext' = "running"
    /\ stream' = "live"
    /\ transport' = "open"
    /\ processor' = "connected"
    /\ inputSource' = "connected"
    /\ session' = "set"
    /\ phase' = "returned"
    /\ isConnected' = TRUE
    /\ calls' = [calls EXCEPT !.getUserMedia = @ + 1]
    /\ UNCHANGED <<textVars, nextStartTime, scheduledSources, sources, pending, currentTime,
                   histVars, error, captured, rejections, transportErrors, afterDisconnect,
                   codecVars>>

\* The state a handleOnMessage call works on, as a record r: the fields of the client
\* and the transcript sequence its callback updates (tr, input, output, sources,
\* tracked, cursor, pending), the calls it made (log), and the history it maintains
\* (marks, turnOpen, heard, dropped, spoken, reset).
Working ==
    [tr |-> transcripts, input |-> currentInputTranscription,
     output |-> currentOutputTranscription, sources |-> sources,
     tracked |-> scheduledSources, cursor |-> nextStartTime, pending |-> pending,
     log |-> <<>>, marks |-> itemTurn, turnOpen |-> turnOpen, heard |-> heard,
     dropped |-> dropped, spoken |-> spoken, reset |-> resetPending]

\* history: the items a reconciler call wrote are marked as written in the latest turn
Marked(marks, before, after) ==
    IF Len(after) > Len(before) THEN Append(marks, TRUE)
    ELSE IF after # before THEN [marks EXCEPT ![Len(marks)] = TRUE]
    ELSE marks

\* this.config.onTranscriptUpdate(text, isUser, isComplete)
Emit(r, text, isUser, isComplete, now) ==
    LET after == HandleTranscriptUpdate(r.tr, text, isUser, isComplete, now)
    IN  [r EXCEPT !.tr = after,
                  !.log = Append(r.log, [text |-> text, isUser |-> isUser,
                                         isComplete |-> isComplete]),
                  !.marks = Marked(r.marks, r.tr, after)]

\* mutant: the accumulators are not cleared
InterruptedText_Kept(r) == r

\* lines 158-159
InterruptedText(r) == [r EXCEPT !.output = <<>>, !.input = <<>>]

\* lines 160-162: stop() on every tracked source
StopAll(srcs, tracked) ==
    [i \in DOMAIN srcs |-> IF i \in tracked THEN [srcs[i] EXCEPT !.stopped = TRUE] ELSE srcs[i]]

\* mutant: the tracking set is cleared without stopping its sources
InterruptedAudio_NoStop(r) == [r EXCEPT !.tracked = {}, !.cursor = 0]

\* mutant: the playback cursor is not reset
InterruptedAudio_KeepsCursor(r) ==
    [r EXCEPT !.sources = StopAll(r.sources, r.tracked), !.tracked = {}]

\* mutant: the tracking set is not cleared
InterruptedAudio_KeepsTracked(r) ==
    [r EXCEPT !.sources = StopAll(r.sources, r.tracked), !.cursor = 0]

\* lines 160-164
InterruptedAudio(r) ==
    [r EXCEPT !.sources = StopAll(r.sources, r.tracked), !.tracked = {}, !.cursor = 0]

\* history of an interruption: the turn is over, the text in flight is noted as
\* dropped, the calls suspended at their await are noted as older than the flush
NoteInterrupted(r) ==
    [r EXCEPT !.turnOpen = FALSE,
              !.heard = [s \in Speakers |-> <<>>],
              !.dropped = [s \in Speakers |-> IF s = "user" THEN r.input ELSE r.output],
              !.spoken = [s \in Speakers |-> <<>>],
              !.reset = [reset |-> TRUE, afterInt |-> TRUE],
              !.pending = [i \in DOMAIN r.pending |-> [r.pending[i] EXCEPT !.stale = TRUE]]]

\* lines 157-166
Interrupted(r) == InterruptedAudio(InterruptedText(NoteInterrupted(r)))

\* the delta text of a transcription field
DeltaText(field) == IF field # Absent THEN field[1] ELSE <<>>

\* history of a message with content: a delta after the end of a turn opens the next
\* turn; each speaker's deltas are collected
NoteContent(r, m) ==
    LET hasDelta == m.inputTranscription # Absent \/ m.outputTranscription # Absent
    IN  [r EXCEPT !.marks = IF hasDelta /\ ~r.turnOpen
                            THEN [i \in DOMAIN r.marks |-> FALSE] ELSE r.marks,
                  !.turnOpen = IF m.turnComplete THEN FALSE ELSE (r.turnOpen \/ hasDelta),
                  !.heard = [s \in Speakers |->
                               r.heard[s] \o (IF s = "user"
                                              THEN DeltaText(m.inputTranscription)
                                              ELSE DeltaText(m.outputTranscription))],
                  !.spoken = [s \in Speakers |->
                                IF m.turnComplete THEN <<>>
                                ELSE r.spoken[s] \o (IF s = "user"
                                                     THEN DeltaText(m.inputTranscription)
                                                     ELSE DeltaText(m.outputTranscription))]]

\* lines 170-173
InputTranscription(r, m, now) ==
    IF m.inputTranscription # Absent
    THEN LET acc == r.input \o m.inputTranscription[1]
         IN  Emit([r EXCEPT !.input = acc], acc, TRUE, FALSE, now)
    ELSE r

\* lines 176-179
OutputTranscription(r, m, now) ==
    IF m.outputTranscription # Absent
    THEN LET acc == r.output \o m.outputTranscription[1]
         IN  Emit([r EXCEPT !.output = acc], acc, FALSE, FALSE, now)
    ELSE r

\* mutant: the user accumulator is finalized without the check of line 184
FinalizeInput_Always(r, now) == [Emit(r, r.input, TRUE, TRUE, now) EXCEPT !.input = <<>>]

\* lines 184-187
FinalizeInput(r, now) ==
    IF Truthy(Trim(r.input))
    THEN [Emit(r, r.input, TRUE, TRUE, now) EXCEPT !.input = <<>>]
    ELSE r

\* lines 188-191
FinalizeOutput(r, now) ==
    IF Truthy(Trim(r.output))
    THEN [Emit(r, r.output, FALSE, TRUE, now) EXCEPT !.output = <<>>]
    ELSE r

\* lines 182-192
TurnComplete(r, m, now) ==
    IF m.turnComplete THEN FinalizeOutput(FinalizeInput(r, now), now) ELSE r

\* mutant: a decode failure tears the playback state down
DecodeFailed_Flushes(r) == [r EXCEPT !.tracked = {}, !.cursor = 0]

\* lines 224-226: the catch block logs the failure, nothing else
DecodeFailed(r) == r

\* lines 195-199, up to the await: decodeBase64 throws into the catch of line 224, or
\* decodeAudioData is called and the call is suspended until its promise settles
AudioData(r, m, ctx) ==
    IF m.audio # NoAudio /\ ctx # "null"
    THEN IF m.audio.kind = "badBase64" THEN DecodeFailed(r)
         ELSE [r EXCEPT !.pending = Append(r.pending,
                                   [kind |-> m.audio.kind, duration |-> m.audio.duration,
                                    stale |-> FALSE, afterInt |-> r.reset.afterInt]),
                        !.reset = IF m.audio.kind = "pcm"
                                  THEN [r.reset EXCEPT !.afterInt = FALSE] ELSE r.reset]
    ELSE r

\* lines 168-199
Content(r, m, ctx, now) ==
    AudioData(
        TurnComplete(
            OutputTranscription(InputTranscription(NoteContent(r, m), m, now), m, now),
            m, now),
        m, ctx)

\* mutant: the return of line 165 left out
OnMessage_NoReturn(r, m, ctx, now) ==
    Content(IF m.interrupted THEN Interrupted(r) ELSE r, m, ctx, now)

\* lines 153-199: the synchronous part of handleOnMessage
OnMessage(r, m, ctx, now) ==
    IF m.interrupted THEN Interrupted(r) ELSE Content(r, m, ctx, now)

\* handleOnMessage, lines 152-199: the transport delivers message m
HandleOnMessage(m) ==
    /\ audioContext # "null"
    /\ msgCount < MaxMsgs
    /\ msgCount' = msgCount + 1
    /\ lastMsg' = m
    /\ LET r == OnMessage(Working, m, audioContext, dateNow)
       IN  /\ transcripts' = r.tr
           /\ currentInputTranscription' = r.input
           /\ currentOutputTranscription' = r.output
           /\ sources' = r.sources
           /\ scheduledSources' = r.tracked
           /\ nextStartTime' = r.cursor
           /\ pending' = r.pending
           /\ emitted' = r.log
           /\ itemTurn' = r.marks
           /\ turnOpen' = r.turnOpen
           /\ heard' = r.heard
           /\ dropped' = r.dropped
           /\ spoken' = r.spoken
           /\ resetPending' = r.reset
    /\ UNCHANGED <<audioContext, currentTime, dateNow, prevTranscripts, lastCall, lifeVars,
                   codecVars>>

\* line 216
StartTime(now, cursor) == Max(now, cursor)

\* handleOnMessage, lines 199-226: the oldest suspended call resumes after its await
ResumeAudio ==
    /\ pending # <<>>
    /\ LET p == Head(pending)
           startTime == StartTime(currentTime, nextStartTime)
       IN  /\ pending' = Tail(pending)
           /\ IF p.kind = "pcm"
              THEN /\ sources' = Append(sources,
                                   [start |-> startTime, duration |-> p.duration,
                                    stopped |-> FALSE, ended |-> FALSE,
                                    stale |-> p.stale, afterInt |-> p.afterInt,
                                    first |-> resetPending.reset])
                   /\ nextStartTime' = startTime + p.duration
                   /\ scheduledSources' = scheduledSources \cup {Len(sources) + 1}
                   /\ resetPending' = [resetPending EXCEPT !.reset = FALSE]
              ELSE UNCHANGED <<sources, nextStartTime, scheduledSources, resetPending>>
    /\ UNCHANGED <<textVars, audioContext, currentTime, lastMsg, emitted, itemTurn, turnOpen,
                   heard, dropped, spoken, prevTranscripts, lastCall, lifeVars, codecVars>>

\* line 222: the ended event of source h, after its natural end or after stop()
SourceEnded(h) ==
    /\ h \in DOMAIN sources
    /\ ~sources[h].ended
    /\ sources[h].stopped \/ currentTime >= sources[h].start + sources[h].duration
    /\ sources' = [sources EXCEPT ![h].ended = TRUE]
    /\ scheduledSources' = scheduledSources \ {h}
    /\ UNCHANGED <<textVars, audioContext, nextStartTime, pending, currentTime, histVars,
                   lifeVars, codecVars>>

\* the audio clock advances
TickAudio ==
    /\ audioContext = "running"
    /\ currentTime < MaxTime
    /\ currentTime' = currentTime + 1
    /\ UNCHANGED <<textVars, audioContext, nextStartTime, scheduledSources, sources, pending,
                   histVars, lifeVars, codecVars>>

\* the messages the specifications deliver
Transcriptions == {Absent} \cup {<<d>> : d \in Deltas}

Messages ==
    [interrupted : BOOLEAN, inputTranscription : Transcriptions,
     outputTranscription : Transcriptions, turnComplete : BOOLEAN,
     audio : {NoAudio} \cup AudioPayloads]

\* the number of kinds of content message m carries
Kinds(m) ==
    Cardinality({f \in {"interrupted", "input", "output", "turnComplete", "audio"} :
        \/ f = "interrupted" /\ m.interrupted
        \/ f = "input" /\ m.inputTranscription # Absent
        \/ f = "output" /\ m.outputTranscription # Absent
        \/ f = "turnComplete" /\ m.turnComplete
        \/ f = "audio" /\ m.audio # NoAudio})

\* an Interrupted message that also carries a delta for each speaker, turnComplete
\* and a decodable audio chunk
LoadedInterrupted ==
    [interrupted |-> TRUE, inputTranscription |-> <<<<"a">>>>,
     outputTranscription |-> <<<<"a">>>>, turnComplete |-> TRUE,
     audio |-> [kind |-> "pcm", duration |-> 1]]

\* messages of one kind of content, without audio; and the loaded Interrupted
TextMessages ==
    {m \in Messages : Kinds(m) = 1 /\ m.audio = NoAudio} \cup {LoadedInterrupted}

\* messages of one kind of content: an audio chunk or Interrupted
AudioMessages ==
    {m \in Messages : Kinds(m) = 1 /\ (m.interrupted \/ m.audio # NoAudio)}

\* the transcript side: accumulators and reconciler
NextTranscript ==
    \/ Connect
    \/ \E m \in TextMessages : HandleOnMessage(m)
    \/ TickDate

SpecTranscript == Init /\ [][NextTranscript]_vars

\* the playback side: decode, schedule, end, flush
NextPlayback ==
    \/ Connect
    \/ \E m \in AudioMessages : HandleOnMessage(m)
    \/ ResumeAudio
    \/ \E h \in DOMAIN sources : SourceEnded(h)
    \/ TickAudio

SpecPlayback == Init /\ [][NextPlayback]_vars

\* the whole client: every message, both clocks.  The properties are checked under
\* the three specifications above, which deliver the messages that concern them.
Next ==
    \/ Connect
    \/ \E m \in Messages : HandleOnMessage(m)
    \/ ResumeAudio
    \/ \E h \in DOMAIN sources : SourceEnded(h)
    \/ TickAudio
    \/ TickDate

Spec == Init /\ [][Next]_vars

---------------------------------------------------------------------------
\* The lifecycle of one client: toggleConnection, connect(), the transport's
\* callbacks, disconnect() and the capture callback, each await a step boundary

\* the state connect(), disconnect() and the callbacks of the App work on, as a record
Life ==
    [session |-> session, transport |-> transport, processor |-> processor,
     inputSource |-> inputSource, audioContext |-> audioContext, stream |-> stream,
     sources |-> sources, tracked |-> scheduledSources, isConnected |-> isConnected,
     error |-> error, calls |-> calls, rejections |-> rejections]

SetLife(l) ==
    /\ session' = l.session
    /\ transport' = l.transport
    /\ processor' = l.processor
    /\ inputSource' = l.inputSource
    /\ audioContext' = l.audioContext
    /\ stream' = l.stream
    /\ sources' = l.sources
    /\ scheduledSources' = l.tracked
    /\ isConnected' = l.isConnected
    /\ error' = l.error
    /\ calls' = l.calls
    /\ rejections' = l.rejections

\* what a teardown is to leave closed, stopped, disconnected and empty (a transport
\* whose close event is still to come is closed)
TeardownOf(l) ==
    [transport |-> IF l.transport = "closing" THEN "closed" ELSE l.transport, stream |-> l.stream, processor |-> l.processor,
     inputSource |-> l.inputSource, audioContext |-> l.audioContext, tracked |-> l.tracked]

\* the onError callback of the App (part_000 lines 112-115)
OnError(l, message) ==
    [l EXCEPT !.calls.onError = @ + 1, !.error = message, !.isConnected = FALSE]

\* the onClose callback of the App (part_000 lines 108-111)
OnClose(l) == [l EXCEPT !.calls.onClose = @ + 1, !.isConnected = FALSE]

\* lines 78-84: session.close() closes an open transport; its close event follows
CloseSession(l) ==
    IF l.session # "null" /\ l.transport = "open" THEN [l EXCEPT !.transport = "closing"] ELSE l

\* AudioNode.disconnect() behind ?. (lines 87-88)
DisconnectNode(node) == IF node = "null" THEN "null" ELSE "disconnected"

\* line 89: audioContext?.close(); close() on a closed context returns a promise
\* rejected with InvalidStateError, which nothing handles
CloseContext(l) ==
    IF l.audioContext = "running" THEN [l EXCEPT !.audioContext = "closed"]
    ELSE IF l.audioContext = "closed" THEN [l EXCEPT !.rejections = @ + 1]
    ELSE l

\* line 92
StopTracks(st) == IF st = "null" THEN "null" ELSE "stopped"

\* lines 94-97
StopScheduled(l) == [l EXCEPT !.sources = StopAll(l.sources, l.tracked), !.tracked = {}]

\* disconnect(), lines 77-100
Disconnect(l) ==
    LET closed == CloseContext(CloseSession(l))
        nodes  == [closed EXCEPT !.processor = DisconnectNode(@),
                                 !.inputSource = DisconnectNode(@),
                                 !.stream = StopTracks(@)]
    IN  OnClose([StopScheduled(nodes) EXCEPT !.calls.disconnect = @ + 1])

\* connect() without teardown in its catch block: lines 72-74
ConnectFailed(l, message) == OnError(l, message)

\* toggleConnection with isConnected false (part_000 lines 94-121) and connect() up to
\* the await of line 40
ToggleConnection ==
    /\ phase = "idle"
    /\ ~isConnected
    /\ phase' = "awaitMic"
    /\ error' = "null"
    /\ calls' = [calls EXCEPT !.getUserMedia = @ + 1]
    /\ UNCHANGED <<textVars, audioVars, histVars, session, stream, processor, inputSource,
                   transport, isConnected, captured, rejections, transportErrors,
                   afterDisconnect, codecVars>>

\* connect(), lines 40-53: getUserMedia resolved; up to the await of line 53
GetUserMediaResolved ==
    /\ phase = "awaitMic"
    /\ phase' = "awaitSession"
    /\ stream' = "live"
    /\ audioContext' = "running"
    /\ transport' = "connecting"
    /\ UNCHANGED <<textVars, nextStartTime, scheduledSources, sources, pending, currentTime,
                   histVars, session, processor, inputSource, isConnected, error, calls,
                   captured, rejections, transportErrors, afterDisconnect, codecVars>>

\* connect(), lines 40 and 72-74: getUserMedia rejected; connect() returns and
\* toggleConnection goes on with line 122
GetUserMediaRejected ==
    /\ phase = "awaitMic"
    /\ phase' = "returned"
    /\ SetLife([ConnectFailed(Life, "NotAllowedError") EXCEPT !.isConnected = TRUE])
    /\ UNCHANGED <<textVars, nextStartTime, pending, currentTime, histVars, captured,
                   transportErrors, afterDisconnect, codecVars>>

\* handleOnOpen, lines 117-150: the transport has opened
TransportOpened ==
    /\ transport = "connecting"
    /\ transport' = "open"
    /\ IF audioContext # "null" /\ stream # "null"
       THEN processor' = "connected" /\ inputSource' = "connected"
       ELSE UNCHANGED <<processor, inputSource>>
    /\ UNCHANGED <<textVars, audioVars, histVars, session, stream, phase, isConnected, error,
                   calls, captured, rejections, transportErrors, afterDisconnect, codecVars>>

\* connect(), lines 53-70: live.connect resolved, the session is stored; connect()
\* returns and toggleConnection goes on with line 122
LiveConnectResolved ==
    /\ phase = "awaitSession"
    /\ transport = "open"
    /\ phase' = "returned"
    /\ session' = "set"
    /\ isConnected' = TRUE
    /\ UNCHANGED <<textVars, audioVars, histVars, stream, processor, inputSource, transport,
                   error, calls, captured, rejections, transportErrors, afterDisconnect,
                   codecVars>>

\* connect(), lines 53 and 72-74: live.connect rejected, no transport was opened;
\* connect() returns and toggleConnection goes on with line 122
LiveConnectRejected ==
    /\ phase = "awaitSession"
    /\ transport = "connecting"
    /\ phase' = "returned"
    /\ transportErrors' = transportErrors + 1
    /\ SetLife([ConnectFailed(Life, "connect failed")
                   EXCEPT !.transport = "closed", !.isConnected = TRUE])
    /\ UNCHANGED <<textVars, nextStartTime, pending, currentTime, histVars, captured,
                   afterDisconnect, codecVars>>

\* handleOnError, lines 235-239: an error event of the transport; the WebSocket that
\* failed closes and its close event follows
TransportError ==
    /\ transport \in {"connecting", "open"}
    /\ transportErrors' = transportErrors + 1
    /\ LET l == [Disconnect(OnError(Life, "Connection error occurred."))
                    EXCEPT !.transport = "closing"]
       IN  SetLife(l) /\ afterDisconnect' = TeardownOf(l)
    /\ UNCHANGED <<textVars, nextStartTime, pending, currentTime, histVars, phase, captured,
                   codecVars>>

\* handleOnClose, lines 230-233: the close event of the transport, after
\* session.close(), after an error, or when the server closes the connection
TransportClosed ==
    /\ transport \in {"open", "closing"}
    /\ LET l == Disconnect([Life EXCEPT !.transport = "closed"])
       IN  SetLife(l) /\ afterDisconnect' = TeardownOf(l)
    /\ UNCHANGED <<textVars, nextStartTime, pending, currentTime, histVars, phase, captured,
                   transportErrors, codecVars>>

\* disconnect() called from outside: by toggleConnection with isConnected true
\* (part_000 lines 90-92, whose setIsConnected(false) repeats what onClose did), or
\* by any other holder of the client at any time
DisconnectCalled ==
    /\ calls.disconnect < MaxDisconnects
    /\ LET l == Disconnect(Life)
       IN  SetLife(l) /\ afterDisconnect' = TeardownOf(l)
    /\ UNCHANGED <<textVars, nextStartTime, pending, currentTime, histVars, phase, captured,
                   transportErrors, codecVars>>

\* mutant: the chunk is sent without the check of line 140
SessionExists_Always(sess) == TRUE

\* line 140: if (this.session)
SessionExists(sess) == sess # "null"

\* processor.onaudioprocess, lines 126-143: one capture batch
Capture ==
    /\ processor = "connected"
    /\ captured < MaxBatches
    /\ captured' = captured + 1
    /\ calls' = [calls EXCEPT !.onAudioVisualizer = @ + 1,
                              !.sendRealtimeInput = IF SessionExists(session) THEN @ + 1 ELSE @]
    /\ UNCHANGED <<textVars, audioVars, histVars, session, stream, processor, inputSource,
                   phase, transport, isConnected, error, rejections, transportErrors,
                   afterDisconnect, codecVars>>

\* the message the lifecycle specification delivers: one decodable audio chunk
LifecycleMessages == {[NoMsg EXCEPT !.audio = [kind |-> "pcm", duration |-> 1]]}

NextLifecycle ==
    \/ ToggleConnection
    \/ GetUserMediaResolved
    \/ GetUserMediaRejected
    \/ TransportOpened
    \/ LiveConnectResolved
    \/ LiveConnectRejected
    \/ TransportError
    \/ TransportClosed
    \/ DisconnectCalled
    \/ Capture
    \/ \E m \in LifecycleMessages : transport = "open" /\ HandleOnMessage(m)
    \/ ResumeAudio

SpecLifecycle == Init /\ [][NextLifecycle]_vars

---------------------------------------------------------------------------
\* Audio payloads that fail to decode, in messages that also carry a transcription

\* a model delta with a payload that is not base64, a model delta with a payload
\* that decodeAudioData rejects, and a decodable chunk
DecodeMessages ==
    {[NoMsg EXCEPT !.outputTranscription = <<<<"a">>>>, !.audio = a] :
        a \in {[kind |-> "badBase64", duration |-> 0], [kind |-> "badLength", duration |-> 0]}}
    \cup {[NoMsg EXCEPT !.audio = [kind |-> "pcm", duration |-> 1]]}

NextDecode ==
    \/ Connect
    \/ \E m \in DecodeMessages : HandleOnMessage(m)
    \/ ResumeAudio
    \/ TickAudio

SpecDecode == Init /\ [][NextDecode]_vars

---------------------------------------------------------------------------
\* The playback clock among all kinds of message: audio chunks that decode or fail,
\* Interrupted, a delta of either speaker, TurnComplete

ClockMessages ==
    {[NoMsg EXCEPT !.audio = a] :
        a \in {[kind |-> "pcm", duration |-> 1], [kind |-> "badBase64", duration |-> 0],
               [kind |-> "badLength", duration |-> 0]}}
    \cup {[NoMsg EXCEPT !.interrupted = TRUE],
          [NoMsg EXCEPT !.inputTranscription = <<<<"a">>>>],
          [NoMsg EXCEPT !.outputTranscription = <<<<"a">>>>],
          [NoMsg EXCEPT !.turnComplete = TRUE]}

NextClock ==
    \/ Connect
    \/ \E m \in ClockMessages : HandleOnMessage(m)
    \/ ResumeAudio
    \/ \E h \in DOMAIN sources : SourceEnded(h)
    \/ TickAudio

SpecClock == Init /\ [][NextClock]_vars

---------------------------------------------------------------------------
\* The reconciler on its own: onTranscriptUpdate called with any arguments

OnTranscriptUpdate(text, isUser, isComplete) ==
    LET next == HandleTranscriptUpdate(transcripts, text, isUser, isComplete, dateNow)
    IN  /\ Len(next) <= MaxItems
        /\ transcripts' = next
        /\ prevTranscripts' = transcripts
        /\ lastCall' = [text |-> text, isUser |-> isUser, isComplete |-> isComplete]
        /\ UNCHANGED <<currentInputTranscription, currentOutputTranscription, dateNow,
                       msgCount, audioVars, lastMsg, emitted, itemTurn, turnOpen, heard, dropped,
                       spoken, resetPending, lifeVars, codecVars>>

NextUpsert ==
    \/ \E text \in TextArgs, isUser \in BOOLEAN, isComplete \in BOOLEAN :
          OnTranscriptUpdate(text, isUser, isComplete)
    \/ TickDate

SpecUpsert == Init /\ [][NextUpsert]_vars

---------------------------------------------------------------------------
\* PCM conversion (src/utils.ts).  A float sample is a rational n / SampleDen, held
\* as its numerator n; a decoded sample is q / DecodeScale, held as q.  Base64 text
\* is a sequence of digits 0..63 and the padding character.

Min(a, b) == IF a <= b THEN a ELSE b

\* mutant: the sample is converted without being clamped
Clamp_None(n) == n

\* line 85: Math.max(-1, Math.min(1, data[i]))
Clamp(n) == Max(0 - SampleDen, Min(SampleDen, n))

\* line 86: s < 0 ? s * 0x8000 : s * 0x7FFF, as a numerator over SampleDen
Scaled(n) == IF n < 0 THEN n * NegScale ELSE n * PosScale

\* the integer part of a / b, b > 0: a number stored into an Int16Array loses its
\* fraction (truncation toward zero) ...
Truncate(a, b) == IF a >= 0 THEN a \div b ELSE 0 - ((0 - a) \div b)

\* ... and is reduced modulo 2^16 into -32768..32767
ToInt16(x) == LET u == x % 65536 IN IF u >= 32768 THEN u - 65536 ELSE u

\* lines 85-86: int16[i]
Quantize(n) == ToInt16(Truncate(Scaled(Clamp(n)), SampleDen))

\* line 89: new Uint8Array(int16.buffer): two bytes per sample, low byte first
RECURSIVE Uint8Array(_)
Uint8Array(int16) ==
    IF int16 = <<>> THEN <<>>
    ELSE LET u == Head(int16) % 65536
         IN  <<u % 256, u \div 256>> \o Uint8Array(Tail(int16))

Pad == 64

\* lines 19-26 with btoa: three bytes make four digits; a last group of one or two
\* bytes is padded
RECURSIVE encodeBase64(_)
encodeBase64(bytes) ==
    IF bytes = <<>> THEN <<>>
    ELSE IF Len(bytes) = 1
         THEN <<bytes[1] \div 4, (bytes[1] % 4) * 16, Pad, Pad>>
    ELSE IF Len(bytes) = 2
         THEN <<bytes[1] \div 4, (bytes[1] % 4) * 16 + bytes[2] \div 16,
                (bytes[2] % 16) * 4, Pad>>
    ELSE <<bytes[1] \div 4, (bytes[1] % 4) * 16 + bytes[2] \div 16,
           (bytes[2] % 16) * 4 + bytes[3] \div 64, bytes[3] % 64>>
             \o encodeBase64(SubSeq(bytes, 4, Len(bytes)))

\* lines 6-14 with atob
RECURSIVE decodeBase64(_)
decodeBase64(base64) ==
    IF Len(base64) < 4 THEN <<>>
    ELSE LET d == SubSeq(base64, 1, 4)
             b1 == d[1] * 4 + d[2] \div 16
             b2 == (d[2] % 16) * 16 + d[3] \div 4
             b3 == (d[3] % 4) * 64 + d[4]
         IN  IF d[3] = Pad THEN <<b1>>
             ELSE IF d[4] = Pad THEN <<b1, b2>>
             ELSE <<b1, b2, b3>> \o decodeBase64(SubSeq(base64, 5, Len(base64)))

\* lines 80-92: the data of the Blob
createPcmBlob(data) ==
    encodeBase64(Uint8Array([i \in DOMAIN data |-> Quantize(data[i])]))

\* line 38: new Int16Array(data.buffer), element i
Int16At(bytes, i) == ToInt16(bytes[2 * i - 1] + 256 * bytes[2 * i])

\* lines 32-50: channelData[i] = dataInt16[i] / 32768.0, as a numerator over DecodeScale
decodeAudioData(bytes) == [i \in 1..(Len(bytes) \div 2) |-> Int16At(bytes, i)]

\* the samples: the multiples of 1 / SampleDen from below -1 to above 1
Samples == (0 - SampleDen - SampleOver)..(SampleDen + SampleOver)

Chunks == UNION {[1..k -> Samples] : k \in 1..MaxSamples}

\* createPcmBlob(data), for one chunk
Encode(data) ==
    /\ pcmBlob = <<>>
    /\ float32In' = data
    /\ pcmBlob' = createPcmBlob(data)
    /\ channelData' = <<>>
    /\ UNCHANGED <<textVars, audioVars, histVars, lifeVars, dsInput, dsRate, dsResult>>

\* decodeAudioData(decodeBase64(blob.data), ctx, rate)
Decode ==
    /\ pcmBlob # <<>>
    /\ channelData = <<>>
    /\ channelData' = decodeAudioData(decodeBase64(pcmBlob))
    /\ UNCHANGED <<textVars, audioVars, histVars, lifeVars, float32In, pcmBlob, dsInput, dsRate,
                   dsResult>>

NextCodec ==
    \/ \E data \in Chunks : Encode(data)
    \/ Decode

SpecCodec == Init /\ [][NextCodec]_vars

---------------------------------------------------------------------------
\* downsampleTo16k (src/utils.ts lines 55-73).  Sample values are integers; a
\* resampled value is held as its numerator over TargetRate.  The array is indexed
\* from 1 here, from 0 in the source.

\* input[j] for a 0-based index j: <<value>>, or <<>> for undefined
At(input, j) == IF j + 1 \in DOMAIN input THEN <<input[j + 1]>> ELSE <<>>

\* x || y for a number or undefined x: undefined and 0 are falsy
OrElse(x, y) == IF x = <<>> \/ x[1] = 0 THEN y ELSE x[1]

\* line 59: Math.ceil(input.length / ratio), ratio = inputRate / 16000
NewLength(len, inputRate) == (len * TargetRate + inputRate - 1) \div inputRate

\* lines 63-70: result[i] for a 0-based index i
Interpolated(input, inputRate, i) ==
    LET intIdx == (i * inputRate) \div TargetRate
        frac   == (i * inputRate) % TargetRate
        val1   == OrElse(At(input, intIdx), 0)
        val2   == OrElse(At(input, intIdx + 1), val1)
    IN  val1 * (TargetRate - frac) + val2 * frac

\* lines 55-73
downsampleTo16k(input, inputRate) ==
    IF inputRate = TargetRate THEN [j \in DOMAIN input |-> input[j] * TargetRate]
    ELSE [j \in 1..NewLength(Len(input), inputRate) |-> Interpolated(input, inputRate, j - 1)]

\* the sample values and the rates the resampler is called with
ResampleValues == {0 - 1, 0, 1}

InputRates == {16000, 24000, 32000, 48000}

ResampleInputs == UNION {[1..k -> ResampleValues] : k \in 0..MaxInput}

\* downsampleTo16k(input, inputRate), for one array
Downsample(input, inputRate) ==
    /\ dsRate = 0
    /\ dsInput' = input
    /\ dsRate' = inputRate
    /\ dsResult' = downsampleTo16k(input, inputRate)
    /\ UNCHANGED <<textVars, audioVars, histVars, lifeVars, float32In, pcmBlob, channelData>>

NextResample == \E input \in ResampleInputs, inputRate \in InputRates : Downsample(input, inputRate)

SpecResample == Init /\ [][NextResample]_vars

---------------------------------------------------------------------------
\* Properties

PrefixRelated(s, t) == StartsWith(s, t) \/ StartsWith(t, s)

\* C1: no two items of the same speaker both hold text written in the same turn
\* with equal texts or one text a prefix of the other: the text of one turn of one
\* speaker is held by one item.
C1_NoDuplicateBubbles ==
    \A i, j \in DOMAIN transcripts :
        (i < j /\ transcripts[i].source = transcripts[j].source /\ itemTurn[i] /\ itemTurn[j])
            => ~PrefixRelated(transcripts[i].text, transcripts[j].text)

\* C2: an incomplete item is the last item of its speaker in the sequence (so each
\* speaker has at most one incomplete item).
C2_OnlyLastItemIncomplete ==
    \A i, j \in DOMAIN transcripts :
        (i < j /\ ~transcripts[i].isComplete)
            => transcripts[j].source # transcripts[i].source

\* a handleOnMessage call has just run
Delivered == msgCount' = msgCount + 1

\* C3: a buffer is scheduled no earlier than the end of the buffer of the previous
\* audio message, when no Interrupted arrived between the two messages.
C3_SequentialPlayback ==
    \A i \in DOMAIN sources :
        (i > 1 /\ ~sources[i].afterInt)
            => sources[i].start >= sources[i - 1].start + sources[i - 1].duration

\* C4: no buffer of a message that arrived before an Interrupted is scheduled after
\* the flush of that Interrupted.
C4_FlushIsAtomic == \A i \in DOMAIN sources : ~sources[i].stale

\* C5: a message that carries Interrupted emits no transcript update, leaves the
\* transcript sequence unchanged, appends to no accumulator and has no audio
\* decoded or scheduled, whatever else it carries.
C5_InterruptedIsOnlyEffect ==
    [][(Delivered /\ lastMsg'.interrupted)
          => /\ emitted' = <<>>
             /\ transcripts' = transcripts
             /\ currentInputTranscription' = <<>>
             /\ currentOutputTranscription' = <<>>
             /\ Len(pending') = Len(pending)
             /\ Len(sources') = Len(sources)]_vars

\* an Interrupted that carried deltas, turnComplete and audio was handled while the
\* user accumulator held text
C5_Witness ==
    /\ lastMsg = LoadedInterrupted
    /\ dropped["user"] # <<>>
    /\ emitted = <<>>
    /\ currentInputTranscription = <<>>
    /\ pending = <<>>

\* C6: handling Interrupted stops every source of the tracking set and leaves the
\* tracking set empty.
C6_FlushStopsAll ==
    [][(Delivered /\ lastMsg'.interrupted)
          => /\ scheduledSources' = {}
             /\ \A h \in scheduledSources : sources'[h].stopped]_vars

\* an Interrupted found two tracked sources
C6_Witness ==
    /\ lastMsg.interrupted
    /\ scheduledSources = {}
    /\ Cardinality({i \in DOMAIN sources : sources[i].stopped}) >= 2

\* C7: the first buffer scheduled after an Interrupted starts at the audio clock's
\* current time.
C7_RestartAtNow ==
    [][(Len(sources') > Len(sources) /\ resetPending.reset)
          => sources'[Len(sources')].start = currentTime]_vars

\* a buffer scheduled first after an Interrupted starts before the end of a buffer
\* scheduled before the Interrupted
C7_Witness ==
    \E i, j \in DOMAIN sources :
        /\ j < i
        /\ sources[i].first
        /\ sources[j].stopped
        /\ sources[i].start < sources[j].start + sources[j].duration

EndsWith(s, t) == Len(t) <= Len(s) /\ SubSeq(s, Len(s) - Len(t) + 1, Len(s)) = t

Speaker(isUser) == IF isUser THEN "user" ELSE "model"

\* C8: Interrupted empties both accumulators and emits nothing; every update emitted
\* afterwards holds only text received after the Interrupted; the update for the
\* next delta of a speaker whose partial text was dropped is exactly that delta.
C8_InterruptionDiscardsText ==
    [][/\ (Delivered /\ lastMsg'.interrupted)
            => /\ currentInputTranscription' = <<>>
               /\ currentOutputTranscription' = <<>>
               /\ emitted' = <<>>
               /\ transcripts' = transcripts
       /\ Delivered
            => \A k \in DOMAIN emitted' :
                  EndsWith(heard'[Speaker(emitted'[k].isUser)], emitted'[k].text)
       /\ (Delivered /\ ~lastMsg'.interrupted /\ lastMsg'.inputTranscription # Absent
             /\ dropped["user"] # <<>> /\ heard["user"] = <<>>)
            => emitted'[1] = [text |-> lastMsg'.inputTranscription[1], isUser |-> TRUE,
                              isComplete |-> FALSE]
       /\ (Delivered /\ ~lastMsg'.interrupted /\ lastMsg'.outputTranscription # Absent
             /\ dropped["model"] # <<>> /\ heard["model"] = <<>>)
            => \E k \in DOMAIN emitted' :
                  emitted'[k] = [text |-> lastMsg'.outputTranscription[1],
                                 isUser |-> FALSE, isComplete |-> FALSE]]_vars

\* the user's partial text was dropped by an Interrupted, a later user delta started
\* afresh and was finalized
C8_Witness ==
    /\ dropped["user"] # <<>>
    /\ heard["user"] # <<>>
    /\ \E k \in DOMAIN emitted :
          /\ emitted[k].isUser
          /\ emitted[k].isComplete
          /\ emitted[k].text = heard["user"]

\* the reconciler call recorded last found a finalized item L of the same speaker
\* as the last item
AfterFinalized ==
    /\ Len(prevTranscripts) > 0
    /\ LastItem(prevTranscripts).source = SourceOf(lastCall.isUser)
    /\ LastItem(prevTranscripts).isComplete

\* the new text T extends L's text
SupersetCase ==
    /\ AfterFinalized
    /\ Truthy(Trim(lastCall.text))
    /\ StartsWith(lastCall.text, LastItem(prevTranscripts).text)
    /\ lastCall.text # LastItem(prevTranscripts).text

\* C9: a non-blank text that extends the text of the finalized last item of the same
\* speaker replaces that item's text and isComplete, keeps its id and position, and
\* creates no item.
C9_SupersetReopen ==
    SupersetCase
        => /\ Len(transcripts) = Len(prevTranscripts)
           /\ LastItem(transcripts).text = lastCall.text
           /\ LastItem(transcripts).isComplete = lastCall.isComplete
           /\ LastItem(transcripts).id = LastItem(prevTranscripts).id
           /\ LastItem(transcripts).source = LastItem(prevTranscripts).source
           /\ \A i \in 1..(Len(transcripts) - 1) : transcripts[i] = prevTranscripts[i]

\* a finalized second item was reopened by an extension of its text
C9_Witness ==
    /\ SupersetCase
    /\ Len(prevTranscripts) = 2
    /\ LastItem(transcripts).text = lastCall.text

\* the new text T equals L's text or is a prefix of it
RepeatOrPrefixCase ==
    /\ AfterFinalized
    /\ \/ lastCall.text = LastItem(prevTranscripts).text
       \/ StartsWith(LastItem(prevTranscripts).text, lastCall.text)

\* C10: a text that equals the text of the finalized last item of the same speaker,
\* or is a prefix of it, leaves the sequence unchanged, for either isComplete.
C10_RepeatAndPrefixSuppressed == RepeatOrPrefixCase => transcripts = prevTranscripts

\* a non-blank proper prefix of the finalized text was delivered as a final text
C10_Witness ==
    /\ RepeatOrPrefixCase
    /\ Truthy(Trim(lastCall.text))
    /\ lastCall.text # LastItem(prevTranscripts).text
    /\ lastCall.isComplete
    /\ transcripts = prevTranscripts

\* the reconciler call recorded last had a non-blank text T and found no last item,
\* a last item of the other speaker, or a finalized last item of the same speaker
\* whose text is neither a prefix of T nor extended by T
UnrelatedCase ==
    /\ Truthy(Trim(lastCall.text))
    /\ \/ Len(prevTranscripts) = 0
       \/ LastItem(prevTranscripts).source # SourceOf(lastCall.isUser)
       \/ /\ AfterFinalized
          /\ ~PrefixRelated(lastCall.text, LastItem(prevTranscripts).text)

\* C11: a non-blank update whose text is unrelated to the last item (empty sequence,
\* other speaker, or finalized same-speaker item with neither text a prefix of the
\* other) appends exactly one item {speaker, T, isComplete} at the end; the items
\* before it are unchanged and the count grows by one.
C11_UnrelatedAppended ==
    UnrelatedCase
        => /\ Len(transcripts) = Len(prevTranscripts) + 1
           /\ LastItem(transcripts).source = SourceOf(lastCall.isUser)
           /\ LastItem(transcripts).text = lastCall.text
           /\ LastItem(transcripts).isComplete = lastCall.isComplete
           /\ \A i \in DOMAIN prevTranscripts : transcripts[i] = prevTranscripts[i]

\* an unrelated text was appended after a finalized item of the same speaker
C11_Witness ==
    /\ UnrelatedCase
    /\ AfterFinalized
    /\ Len(transcripts) = 2
    /\ LastItem(transcripts).text = lastCall.text
    /\ LastItem(transcripts).source = LastItem(prevTranscripts).source

\* the accumulator of speaker s as the TurnComplete block of message m finds it
AccumulatorAt(s, m) ==
    IF s = "user" THEN currentInputTranscription \o DeltaText(m.inputTranscription)
    ELSE currentOutputTranscription \o DeltaText(m.outputTranscription)

\* the final updates a handleOnMessage call emitted for speaker s
Finals(log, s) == {k \in DOMAIN log : log[k].isComplete /\ Speaker(log[k].isUser) = s}

\* C12: handling TurnComplete emits, for each speaker, exactly one update with
\* isComplete = TRUE and the accumulator's full text when the accumulator is
\* non-empty after trimming, and no final update when it is empty or whitespace only.
C12_TurnCompleteFinalizes ==
    [][(Delivered /\ ~lastMsg'.interrupted /\ lastMsg'.turnComplete)
          => \A s \in Speakers :
                IF Truthy(Trim(AccumulatorAt(s, lastMsg')))
                THEN /\ Cardinality(Finals(emitted', s)) = 1
                     /\ \A k \in Finals(emitted', s) :
                           emitted'[k].text = AccumulatorAt(s, lastMsg')
                ELSE Finals(emitted', s) = {}]_vars

\* a TurnComplete found text in the user accumulator and only whitespace in the model
\* accumulator: one final update, for the user
C12_Witness ==
    /\ lastMsg.turnComplete
    /\ ~lastMsg.interrupted
    /\ Len(emitted) = 1
    /\ emitted[1].isUser
    /\ emitted[1].isComplete
    /\ Truthy(Trim(emitted[1].text))
    /\ currentOutputTranscription # <<>>
    /\ ~Truthy(Trim(currentOutputTranscription))

\* C13: after a TurnComplete or an Interrupted has been handled both accumulators
\* are empty, whatever they held before.
C13_AccumulatorsCleared ==
    (lastMsg.turnComplete \/ lastMsg.interrupted)
        => /\ currentInputTranscription = <<>>
           /\ currentOutputTranscription = <<>>

\* C14: the ids of the items of the transcript sequence are pairwise distinct.
C14_UniqueIds ==
    \A i, j \in DOMAIN transcripts : i # j => transcripts[i].id # transcripts[j].id

\* C15: in every state (never connected, connect() in progress, connected, already
\* disconnected) a disconnect() call raises no error, and in a state that is as a
\* disconnect() call left it a further call leaves the transport, the microphone
\* tracks, the audio nodes and the tracking set as they are.
C15_DisconnectIdempotent ==
    /\ Disconnect(Life).rejections = rejections
    /\ (afterDisconnect = TeardownOf(Life))
          => (TeardownOf(Disconnect(Life)) = TeardownOf(Life))

\* the session torn down: transport closed, microphone tracks stopped, audio nodes
\* disconnected and context closed, no playback handle tracked
TornDown ==
    /\ transport \in {"closing", "closed"}
    /\ stream # "live"
    /\ processor # "connected"
    /\ inputSource # "connected"
    /\ audioContext # "running"
    /\ scheduledSources = {}

\* C16: a transport-level error (the session failing to open, or an error event of
\* the transport) invokes the error callback and leaves the whole session torn down.
C16_TransportErrorTearsDown ==
    [][(transportErrors' = transportErrors + 1)
          => /\ calls'.onError = calls.onError + 1
             /\ TornDown']_vars

\* C17: after a microphone acquisition failure the error callback has been invoked,
\* no transport was opened, getUserMedia was called once, and once connect() has
\* returned the App is not in its connected state.
C17_MicFailureFatal ==
    (error = "NotAllowedError")
        => /\ calls.onError >= 1
           /\ transport = "none"
           /\ session = "null"
           /\ calls.getUserMedia = 1
           /\ (phase = "returned" => ~isConnected)

\* a capture batch has just been handled
Captured == captured' = captured + 1

\* C19: every capture batch invokes the level callback once and is sent exactly when
\* a session exists at that moment; a batch without a session is dropped: it invokes
\* no error callback, raises nothing, and is not sent later (nothing is sent outside
\* the capture callback).
C19_SendDrop ==
    [][/\ Captured
            => /\ calls'.onAudioVisualizer = calls.onAudioVisualizer + 1
               /\ calls'.sendRealtimeInput =
                     calls.sendRealtimeInput + (IF session # "null" THEN 1 ELSE 0)
               /\ calls'.onError = calls.onError
               /\ error' = error
               /\ rejections' = rejections
       /\ (calls'.sendRealtimeInput # calls.sendRealtimeInput) => Captured]_vars

\* one batch was captured before the session was stored and dropped, a later one sent
C19_Witness ==
    /\ captured = 2
    /\ calls.onAudioVisualizer = 2
    /\ calls.sendRealtimeInput = 1
    /\ session = "set"
    /\ calls.onError = 0

\* the payload of message m does not decode
Undecodable(m) == m.audio.kind \in {"badBase64", "badLength"}

\* the playback state and what the App is told of errors and closing
PlaybackAndSession ==
    <<nextStartTime, scheduledSources, sources, calls, error, isConnected, TeardownOf(Life)>>

\* C18: a message whose audio payload fails to decode leaves the playback cursor, the
\* tracking set and the sources as they are, invokes no error callback and tears
\* nothing down, at its delivery and when its suspended call resumes; its
\* transcription is processed as if it carried no audio; and a decodable chunk that
\* resumes afterwards is scheduled at max(now, cursor) and tracked.
C18_DecodeErrorSkipped ==
    [][/\ (Delivered /\ Undecodable(lastMsg'))
            => /\ PlaybackAndSession' = PlaybackAndSession
               /\ emitted' = OnMessage(Working, [lastMsg' EXCEPT !.audio = NoAudio],
                                       audioContext, dateNow).log
               /\ transcripts' = OnMessage(Working, [lastMsg' EXCEPT !.audio = NoAudio],
                                           audioContext, dateNow).tr
       /\ (Len(pending') < Len(pending) /\ Head(pending).kind # "pcm")
            => PlaybackAndSession' = PlaybackAndSession
       /\ (Len(pending') < Len(pending) /\ Head(pending).kind = "pcm")
            => /\ Len(sources') = Len(sources) + 1
               /\ sources'[Len(sources')].start = Max(currentTime, nextStartTime)
               /\ Len(sources') \in scheduledSources'
               /\ nextStartTime' = Max(currentTime, nextStartTime) + Head(pending).duration]_vars

\* after two messages whose payloads failed to decode and whose transcription was
\* shown, a decodable chunk was scheduled behind an earlier one
C18_Witness ==
    /\ msgCount = 4
    /\ lastMsg.audio.kind = "pcm"
    /\ pending = <<>>
    /\ Len(sources) = 2
    /\ sources[2].start = sources[1].start + sources[1].duration
    /\ scheduledSources = {1, 2}
    /\ Len(transcripts) = 1
    /\ transcripts[1].text = <<"a", "a">>
    /\ calls.onError = 0

Abs(x) == IF x < 0 THEN 0 - x ELSE x

\* the difference between sample i, clamped to [-1, 1], and its decoded value, as a
\* numerator over SampleDen * DecodeScale
RoundTripError(i) == Clamp(float32In[i]) * DecodeScale - channelData[i] * SampleDen

Reference(input, inputRate, i) ==
    LET k  == (i * inputRate) \div TargetRate
        f  == (i * inputRate) % TargetRate
        a  == input[k + 1]
        b  == IF k + 2 \in DOMAIN input THEN input[k + 2] ELSE a
    IN  a * (TargetRate - f) + b * f

\* the two neighbouring input samples of output i, as numerators over TargetRate
NeighbourLow(input, inputRate, i) ==
    LET k == (i * inputRate) \div TargetRate
        a == input[k + 1]
        b == IF k + 2 \in DOMAIN input THEN input[k + 2] ELSE a
    IN  Min(a, b) * TargetRate

NeighbourHigh(input, inputRate, i) ==
    LET k == (i * inputRate) \div TargetRate
        a == input[k + 1]
        b == IF k + 2 \in DOMAIN input THEN input[k + 2] ELSE a
    IN  Max(a, b) * TargetRate

\* C21: downsampleTo16k returns the input at rate 16000; at a higher rate it returns
\* ceil(len / (R / 16000)) values, each the linear interpolation of its two
\* neighbouring input samples (the second replaced by the first only when it is out
\* of range) and so within the range those two samples span.
C21_DownsampleIsLinearInterpolation ==
    (dsRate # 0)
        => IF dsRate = TargetRate
           THEN dsResult = [j \in DOMAIN dsInput |-> dsInput[j] * TargetRate]
           ELSE /\ Len(dsResult) = NewLength(Len(dsInput), dsRate)
                /\ \A j \in DOMAIN dsResult :
                      /\ dsResult[j] = Reference(dsInput, dsRate, j - 1)
                      /\ dsResult[j] >= NeighbourLow(dsInput, dsRate, j - 1)
                      /\ dsResult[j] <= NeighbourHigh(dsInput, dsRate, j - 1)

\* the delta text message m carries for speaker s
DeltaOf(m, s) ==
    IF s = "user" THEN DeltaText(m.inputTranscription) ELSE DeltaText(m.outputTranscription)

\* the last item of sequence tr is an incomplete item of speaker s
Continues(tr, s) == tr # <<>> /\ LastItem(tr).source = s /\ ~LastItem(tr).isComplete

\* every item of tr but the last is in next, at the same place, unchanged
SameBefore(tr, next) ==
    Len(next) >= Len(tr) /\ \A i \in 1..(Len(tr) - 1) : next[i] = tr[i]

\* C22: while deltas d1..dn of one speaker arrive with no TurnComplete or Interrupted
\* between them and the last item of the sequence is that speaker's incomplete item
\* of the turn, each delta updates that one item (none is appended, no other item
\* changes) and the item's text is the concatenation d1 + ... + dn, isComplete FALSE.
C22_InPlaceContinuation ==
    [][(Delivered /\ ~lastMsg'.interrupted /\ ~lastMsg'.turnComplete)
          => \A s \in Speakers :
                (/\ DeltaOf(lastMsg', s) # <<>>
                 /\ Continues(transcripts', s)
                 /\ itemTurn'[Len(transcripts')])
                => /\ LastItem(transcripts').text = spoken'[s]
                   /\ (Continues(transcripts, s) /\ spoken[s] # <<>>)
                         => /\ Len(transcripts') = Len(transcripts)
                            /\ LastItem(transcripts').id = LastItem(transcripts).id
                            /\ SameBefore(transcripts, transcripts')]_vars

\* C23: the transcript sequence is append-only except for its last element: every
\* reconciler call leaves the length unchanged or raises it by one, removes and
\* reorders nothing, leaves every item but the last unchanged in all fields, leaves
\* the last item unchanged too when it appends a new one, and changes nothing at all
\* when its text is empty or whitespace only.
C23_AppendOnlyButLast ==
    [][/\ Len(transcripts') \in {Len(transcripts), Len(transcripts) + 1}
       /\ SameBefore(transcripts, transcripts')
       /\ Len(transcripts') = Len(transcripts) + 1
             => \A i \in DOMAIN transcripts : transcripts'[i] = transcripts[i]
       /\ (dateNow' = dateNow /\ ~Truthy(Trim(lastCall'.text)))
             => transcripts' = transcripts]_vars

\* a call rewrote the last of two items and left the first as it was
C23_Witness ==
    /\ Len(prevTranscripts) = 2
    /\ Len(transcripts) = 2
    /\ transcripts[2] # prevTranscripts[2]
    /\ transcripts[1] = prevTranscripts[1]

\* the end of source h on the playback timeline
EndOf(h) == sources[h].start + sources[h].duration

\* every tracked source ends at or before the playback cursor
TrackedBeforeCursor == \A h \in scheduledSources : EndOf(h) <= nextStartTime

\* a suspended handleOnMessage call resumed in this step
Resumed == Len(pending') < Len(pending)

\* a buffer was scheduled in this step
Scheduled == Len(sources') = Len(sources) + 1

\* the ended event of a source was handled in this step
Ended == \E h \in DOMAIN sources : ~sources[h].ended /\ sources'[h].ended

\* what a step may do to the playback cursor
CursorStep ==
    /\ nextStartTime' # nextStartTime
          => \/ /\ Scheduled
                /\ nextStartTime' = sources'[Len(sources')].start
                                       + sources'[Len(sources')].duration
             \/ Delivered /\ lastMsg'.interrupted /\ nextStartTime' = 0
    /\ (Delivered /\ ~lastMsg'.interrupted) => nextStartTime' = nextStartTime
    /\ (Resumed /\ ~Scheduled) => nextStartTime' = nextStartTime
    /\ Ended => nextStartTime' = nextStartTime

\* C24: every handle in the tracking set satisfies start + duration <= nextStartTime,
\* and nextStartTime changes only when a buffer is scheduled (to that buffer's
\* start + duration) or when Interrupted resets it to 0: transcript deltas,
\* TurnComplete, failed decodes and the end of a source leave it unchanged.
C24_PlaybackClock == []TrackedBeforeCursor /\ [][CursorStep]_vars

\* a TurnComplete arrived while one source was tracked and another had played to its end
C24_Witness ==
    /\ lastMsg.turnComplete
    /\ nextStartTime > 0
    /\ scheduledSources # {}
    /\ \E h \in DOMAIN sources : sources[h].ended /\ ~sources[h].stopped

\* disconnect() has run on the session (its AudioContext existed) and the onClose
\* callback has been invoked
TeardownDone ==
    /\ calls.disconnect >= 1
    /\ calls.onClose >= 1
    /\ afterDisconnect # NotDisconnected
    /\ afterDisconnect.audioContext # "null"

\* this step is a call of disconnect() from outside, not the handling of an event
CalledFromOutside ==
    /\ calls'.disconnect = calls.disconnect + 1
    /\ transportErrors' = transportErrors
    /\ ~(transport # "closed" /\ transport' = "closed")

\* this step invoked no callback of the App but onError, scheduled no buffer, added
\* nothing to the tracking set and sent no chunk
NoOutwardEffect ==
    /\ calls'.onClose = calls.onClose
    /\ calls'.onAudioVisualizer = calls.onAudioVisualizer
    /\ calls'.sendRealtimeInput = calls.sendRealtimeInput
    /\ Delivered => emitted' = <<>>
    /\ transcripts' = transcripts
    /\ Len(sources') = Len(sources)
    /\ scheduledSources' \subseteq scheduledSources

\* C25: teardown is final: once disconnect() has run and onClose has been invoked,
\* no message, close event, error event or open event delivered afterwards invokes
\* onClose again, invokes onTranscriptUpdate or onAudioVisualizer, schedules an audio
\* buffer or adds one to the tracking set, or sends a captured chunk.
C25_TeardownFinal == [][(TeardownDone /\ ~CalledFromOutside) => NoOutwardEffect]_vars

===========================================================================
